---- MODULE Spec2Model ----
(***************************************************************************)
(* Model of scripts/diagnostic-agent.py: the rate-limited diagnostic       *)
(* dispatch pipeline (check_rate_limit, collect_source_context,            *)
(* collect_git_context, diagnose, __main__), and of is_enabled of          *)
(* scripts/config-loader.py.                                               *)
(*                                                                         *)
(* Spec runs the script serialized, ConcSpec runs independent processes,   *)
(* PureSpec applies one function to one input.                             *)
(*                                                                         *)
(* Time is counted in whole seconds.  The rate-limit file is a text: a     *)
(* sequence of lines (the text split at '\n'); a line is <<>> (blank) or   *)
(* <<t>> (the decimal rendering of the timestamp t).                       *)
(* Write_text is taken as one atomic step, read_text as one atomic step.   *)
(***************************************************************************)
EXTENDS Integers, Sequences, FiniteSets, TLC

VARIABLES
    clock,          \* time.time(), in whole seconds
    ticks,          \* how often the clock has advanced
    fs,             \* RATE_LIMIT_FILE: [exists, text]
    pc,             \* pc[p]: where process p stands in the script
    arg,            \* arg[p]: the kind of command-line argument p was given
    now,            \* now[p]: the local now of check_rate_limit
    recent_calls,   \* recent_calls[p]: the local recent_calls
    prompt,         \* prompt[p]: the context collected for the prompt
    git_run,        \* git_run[p]: what subprocess.run did for p
    response,       \* response[p]: what client.messages.create did for p
    result,         \* result[p]: the object p printed
    raised,         \* raised[p]: the exception that left diagnose, or "none"
    exit_status,    \* exit_status[p]: "running", "0" or "1"
    called,         \* called[p]: the calls p made and what check_rate_limit returned
    overlapped,     \* overlapped[p]: another process was inside check_rate_limit with p
    admitted,       \* timestamps of all calls check_rate_limit admitted, in order
    started,        \* how many concurrent invocations have been started
    rejected_oldest,\* the oldest timestamp in the window of the first and of the latest rejection
    fn_in,          \* the input of a function applied on its own
    fn_out          \* what the function returned for fn_in

vars ==
    <<clock, ticks, fs, pc, arg, now, recent_calls, prompt, git_run, response, result,
      raised, exit_status, called, overlapped, admitted, started, rejected_oldest,
      fn_in, fn_out>>

\* the application of a single function
pure_vars == <<fn_in, fn_out>>

\* what of a process the rate limiter does not touch
outcome_vars == <<prompt, git_run, response, result, raised, exit_status>>

(* ---------------------------- bounds ----------------------------------- *)

\* number of clock advances in a behaviour
MaxTicks == 2

\* number of admitted calls in a behaviour
MaxAdmitted == 12

\* number of invocations started in a behaviour of concurrent invocations
MaxConcStarts == 3

\* the operating-system processes running the script
Procs == {1, 2}

\* the amounts by which the clock advances between two observations
Deltas == {1, 3599}

(* ------------------------ program constants ---------------------------- *)

MAX_CALLS_PER_HOUR == 10

HOUR == 3600

RAW_LIMIT == 200

SOURCE_LIMIT == 3000

(* --------------------------- sequences --------------------------------- *)

RECURSIVE SelectGreater(_, _)
\* [t for t in calls if t > bound]
SelectGreater(calls, bound) ==
    IF calls = <<>> THEN <<>>
    ELSE IF Head(calls) > bound
         THEN <<Head(calls)>> \o SelectGreater(Tail(calls), bound)
         ELSE SelectGreater(Tail(calls), bound)

\* s[:n]
Prefix(s, n) == IF Len(s) > n THEN SubSeq(s, 1, n) ELSE s

(* ------------------------- the rate-limit file ------------------------- *)

\* str(t) for a timestamp: one non-blank line
Str(t) == <<t>>

\* float(line) for a non-blank line
Float(line) == line[1]

\* t.strip() is non-empty
NonBlank(line) == line # <<>>

\* '\n'.join(str(t) for t in ts): the empty list gives the empty text, which
\* splits into one blank line
JoinLines(ts) == IF ts = <<>> THEN << <<>> >> ELSE [i \in 1..Len(ts) |-> Str(ts[i])]

RECURSIVE ParseLines(_)
\* [float(t) for t in text.split('\n') if t.strip()]
ParseLines(text) ==
    IF text = <<>> THEN <<>>
    ELSE IF NonBlank(Head(text))
         THEN <<Float(Head(text))>> \o ParseLines(Tail(text))
         ELSE ParseLines(Tail(text))

NoFile == [exists |-> FALSE, text |-> <<>>]

\* RATE_LIMIT_FILE.write_text(s)
WriteText(text) == [exists |-> TRUE, text |-> text]

\* hour_ago = now - 3600
HourAgo(t) == t - HOUR

\* the filter with >= in place of >: boundary-equal entries stay in the window
RecentCallsInclusive(calls, t) == SelectGreater(calls, HourAgo(t) - 1)

\* the filter that takes the stored timestamps as sorted: it drops the
\* expired ones at the head and keeps all that follow
RECURSIVE RecentCallsFromFirstRecent(_, _)
RecentCallsFromFirstRecent(calls, t) ==
    IF calls # <<>> /\ Head(calls) <= HourAgo(t)
    THEN RecentCallsFromFirstRecent(Tail(calls), t)
    ELSE calls

\* recent_calls = [t for t in calls if t > hour_ago]
RecentCalls(calls, t) == SelectGreater(calls, HourAgo(t))

\* the comparison with > in place of >=
LimitExceededOffByOne(recent) == Len(recent) > MAX_CALLS_PER_HOUR

\* len(recent_calls) >= MAX_CALLS_PER_HOUR
LimitExceeded(recent) == Len(recent) >= MAX_CALLS_PER_HOUR

(* ----------------------- the LLM response text ------------------------- *)

(* A response text is a sequence of characters over                        *)
(*   "{"  "}"   braces                                                     *)
(*   "k"        a member key with its colon, as in  "severity":            *)
(*   "1"        a scalar JSON value                                        *)
(*   "x"        any character that is not part of JSON (prose, a fence)    *)
Chars == {"{", "}", "k", "1", "x"}

Positions(s, c) == {i \in 1..Len(s) : s[i] = c}

Min(S) == CHOOSE m \in S : \A n \in S : m <= n

Max(S) == CHOOSE m \in S : \A n \in S : m >= n

NoMatch == <<0, 0>>

\* the search with the lazy pattern \{[\s\S]*?\}: from the leftmost "{" to the
\* first "}" behind it
BraceSearchLazy(content) ==
    IF Positions(content, "{") = {} THEN NoMatch
    ELSE LET first == Min(Positions(content, "{"))
             closes == {j \in Positions(content, "}") : j > first}
         IN  IF closes = {} THEN NoMatch ELSE <<first, Min(closes)>>

\* re.search(r'\{[\s\S]*\}', content): the span <<first, last>> of the match,
\* from the leftmost "{" to the last "}" behind it; NoMatch when there is none
BraceSearch(content) ==
    IF Positions(content, "{") = {} THEN NoMatch
    ELSE LET first == Min(Positions(content, "{"))
             closes == {j \in Positions(content, "}") : j > first}
         IN  IF closes = {} THEN NoMatch ELSE <<first, Max(closes)>>

\* json_match.group()
MatchGroup(content, span) == SubSeq(content, span[1], span[2])

DecodeFail == [ok |-> FALSE, next |-> 0, val |-> <<>>]

RECURSIVE DecodeValue(_, _)
\* the JSON decoder at position i of s: a scalar, {} or {k value}
DecodeValue(s, i) ==
    IF i > Len(s) THEN DecodeFail
    ELSE IF s[i] = "1" THEN [ok |-> TRUE, next |-> i + 1, val |-> <<"scalar">>]
    ELSE IF s[i] # "{" THEN DecodeFail
    ELSE IF i + 1 > Len(s) THEN DecodeFail
    ELSE IF s[i + 1] = "}" THEN [ok |-> TRUE, next |-> i + 2, val |-> <<"object">>]
    ELSE IF s[i + 1] # "k" THEN DecodeFail
    ELSE LET member == DecodeValue(s, i + 2)
         IN  IF ~member.ok THEN DecodeFail
             ELSE IF member.next > Len(s) THEN DecodeFail
             ELSE IF s[member.next] # "}" THEN DecodeFail
             ELSE [ok |-> TRUE, next |-> member.next + 1,
                   val |-> <<"object", member.val>>]

\* json.loads(text): the whole text is one JSON value, or JSONDecodeError
JsonLoads(text) ==
    LET r == DecodeValue(text, 1)
    IN  IF r.ok /\ r.next = Len(text) + 1 THEN r ELSE DecodeFail

(* ------------------------------ results -------------------------------- *)

\* no value returned yet
NoResult == [pending |-> TRUE]

\* {"error": msg}
ErrorObject(msg) == [error |-> msg]

RATE_LIMIT_MESSAGE == "Rate limit exceeded (max 10 calls/hour)"

\* the message of line 141 (written in Korean in the source)
JSON_PARSE_FAILED == "JSON parse failed"

\* {"error": "JSON parse failed", "raw": content[:200]}
ParseFailure(content) == [error |-> JSON_PARSE_FAILED, raw |-> Prefix(content, RAW_LIMIT)]

\* the dict json.loads returned
Diagnosis(val) == [decoded |-> val]

\* str(e) of the exception the except clause of diagnose caught
StrExc(e) == e

\* lines 136-144: the handling of the response text inside the try block
ParseResponse(content) ==
    LET json_match == BraceSearch(content)
    IN  IF json_match # NoMatch
        THEN LET decoded == JsonLoads(MatchGroup(content, json_match))
             IN  IF decoded.ok THEN Diagnosis(decoded.val)
                 ELSE ErrorObject(StrExc("JSONDecodeError"))
        ELSE ParseFailure(content)

(* --------------------------- source context ---------------------------- *)

\* the sentinel of line 60 (written in Korean in the source)
SOURCE_NOT_FOUND == <<"(source file not found)">>

\* what the mapped path can be: no file, a text file, or a file whose read
\* raises (not UTF-8, a directory, no permission)
SourceFiles ==
    { [exists |-> FALSE, readable |-> FALSE, content |-> <<>>],
      [exists |-> TRUE, readable |-> TRUE, content |-> <<"f", "n">>],
      [exists |-> TRUE, readable |-> FALSE, content |-> <<>>] }

Returned(v) == [raised |-> "none", value |-> v]

Raised(e) == [raised |-> e, value |-> <<>>]

\* collect_source_context that marks the cut of a long file with an ellipsis
collect_source_context_marked(f) ==
    IF f.exists
    THEN IF f.readable
         THEN Returned(IF Len(f.content) > SOURCE_LIMIT
                       THEN SubSeq(f.content, 1, SOURCE_LIMIT - 1) \o <<"...">>
                       ELSE f.content)
         ELSE Raised("UnicodeDecodeError")
    ELSE Returned(SOURCE_NOT_FOUND)

\* collect_source_context on a target whose mapped path is the file f
collect_source_context(f) ==
    IF f.exists
    THEN IF f.readable
         THEN Returned(IF Len(f.content) > SOURCE_LIMIT
                       THEN SubSeq(f.content, 1, SOURCE_LIMIT) ELSE f.content)
         ELSE Raised("UnicodeDecodeError")
    ELSE Returned(SOURCE_NOT_FOUND)

(* ----------------------------- git context ----------------------------- *)

\* the sentinels of lines 75 and 77 (written in Korean in the source)
NO_RECENT_COMMITS == <<"(no recent commits)">>

GIT_FAILED == <<"(git info collection failed)">>

Whitespace == {" ", "\n"}

RECURSIVE LStrip(_)
LStrip(s) == IF s # <<>> /\ Head(s) \in Whitespace THEN LStrip(Tail(s)) ELSE s

RECURSIVE RStrip(_)
RStrip(s) ==
    IF s # <<>> /\ s[Len(s)] \in Whitespace THEN RStrip(SubSeq(s, 1, Len(s) - 1)) ELSE s

\* s.strip()
Strip(s) == RStrip(LStrip(s))

\* what subprocess.run(["git", "log", ...], timeout=10) can do: complete with
\* an exit status and an output, or raise
GitRuns ==
    { [outcome |-> "completed", returncode |-> 0, stdout |-> <<"c", "\n">>],
      [outcome |-> "completed", returncode |-> 0, stdout |-> <<"\n">>],
      [outcome |-> "completed", returncode |-> 128, stdout |-> <<>>],
      [outcome |-> "TimeoutExpired", returncode |-> 0, stdout |-> <<>>],
      [outcome |-> "FileNotFoundError", returncode |-> 0, stdout |-> <<>>] }

\* collect_git_context when subprocess.run behaves as run
collect_git_context(run) ==
    IF run.outcome = "completed"
    THEN IF Strip(run.stdout) # <<>> THEN Strip(run.stdout) ELSE NO_RECENT_COMMITS
    ELSE GIT_FAILED

(* ------------------------------ the LLM -------------------------------- *)

\* the response texts tried in the pipeline
ResponseTexts ==
    { <<"x", "{", "k", "1", "}", "x">>,
      <<"x", "x">>,
      <<"{", "x", "}">> }

\* what client.messages.create(...) and response.content[0].text can raise
LLMExceptions == {"APIConnectionError", "IndexError"}

\* client.messages.create(...) raises, or returns a response whose first
\* content block holds a text
LLMOutcomes ==
    {[raised |-> e, text |-> <<>>] : e \in LLMExceptions}
        \cup {[raised |-> "none", text |-> t] : t \in ResponseTexts}

\* the try block with an except clause that does not catch what the client raises
CallAndParseUncaught(outcome) ==
    IF outcome.raised # "none" THEN Raised(outcome.raised)
    ELSE Returned(ParseResponse(outcome.text))

\* lines 128-144: the try block of diagnose and its except clause
CallAndParse(outcome) ==
    IF outcome.raised # "none" THEN Returned(ErrorObject(StrExc(outcome.raised)))
    ELSE Returned(ParseResponse(outcome.text))

(* ------------------------------ the script ----------------------------- *)

\* sys.argv[1]: absent, not JSON, JSON but no object, a JSON object
Args == {"noarg", "malformed", "nondict", "dict"}

NoPrompt == [source |-> <<>>, git_log |-> <<>>]

NoRun == [outcome |-> "none", returncode |-> 0, stdout |-> <<>>]

NoResponse == [raised |-> "none", text |-> <<>>]

\* line 28: the text written when the file does not exist
FirstWrite(t) == <<Str(t)>>

\* the rejection that drops the oldest record of the window
RejectWriteDropsOldest(recent) == JoinLines(Tail(recent))

\* line 38: the text written on rejection
RejectWrite(recent) == JoinLines(recent)

\* the admission write that stores now twice
AdmitWriteNowTwice(recent, t) == JoinLines(Append(Append(recent, t), t))

\* the admission that forgets to append now
AdmitWriteWithoutNow(recent, t) == JoinLines(recent)

\* lines 42-43: the text written on admission
AdmitWrite(recent, t) == JoinLines(Append(recent, t))

\* p is between the first and the last statement of check_rate_limit
InRateLimit(p) == pc[p] \in {"exists", "write_first", "read", "write"}

\* no function is applied on its own
NoInput == [fn |-> "none"]

NoOutput == [fn |-> "none"]

\* no call has been rejected
NotRejected == 0 - 1

\* a call is rejected with recent in the window: the oldest of them is noted
\* as that of the latest rejection, and of the first when it is the first
Rejected(recent) ==
    LET oldest == Min({recent[i] : i \in DOMAIN recent})
    IN  [first  |-> IF rejected_oldest.first = NotRejected THEN oldest
                    ELSE rejected_oldest.first,
         latest |-> oldest]

\* no invocation is under way and nothing is left of an earlier one
Quiescent ==
    /\ rejected_oldest = [first |-> NotRejected, latest |-> NotRejected]
    /\ pc = [p \in Procs |-> "idle"]
    /\ arg = [p \in Procs |-> "none"]
    /\ now = [p \in Procs |-> 0]
    /\ recent_calls = [p \in Procs |-> <<>>]
    /\ prompt = [p \in Procs |-> NoPrompt]
    /\ git_run = [p \in Procs |-> NoRun]
    /\ response = [p \in Procs |-> NoResponse]
    /\ result = [p \in Procs |-> NoResult]
    /\ raised = [p \in Procs |-> "none"]
    /\ exit_status = [p \in Procs |-> "running"]
    /\ called = [p \in Procs |-> <<>>]
    /\ overlapped = [p \in Procs |-> FALSE]

\* the storage is missing or empty, the clock at 0
Init ==
    /\ clock = 0
    /\ ticks = 0
    /\ fs \in {NoFile, WriteText(JoinLines(<<>>))}
    /\ admitted = <<>>
    /\ started = 0
    /\ Quiescent
    /\ fn_in = NoInput
    /\ fn_out = NoOutput

\* the process ends: it printed obj, or exc left it, and its status is code
Exit(p, obj, exc, code) ==
    /\ result' = [result EXCEPT ![p] = obj]
    /\ raised' = [raised EXCEPT ![p] = exc]
    /\ exit_status' = [exit_status EXCEPT ![p] = code]
    /\ prompt' = [prompt EXCEPT ![p] = NoPrompt]
    /\ git_run' = [git_run EXCEPT ![p] = NoRun]
    /\ pc' = [pc EXCEPT ![p] = "exit"]

\* the script that decodes its argument only after diagnose has been entered
BeginDecodesLater(p, a) ==
    /\ arg' = [arg EXCEPT ![p] = a]
    /\ IF a = "noarg"
       THEN Exit(p, ErrorObject("Usage: diagnostic-agent.py '<json_log>'"), "none", "1")
       ELSE /\ pc' = [pc EXCEPT ![p] = "diagnose"]
            /\ UNCHANGED <<result, raised, exit_status, prompt, git_run>>

\* lines 146-157 up to the call of diagnose, for the argument a
Begin(p, a) ==
    /\ arg' = [arg EXCEPT ![p] = a]
    /\ IF a = "noarg"
       THEN Exit(p, ErrorObject("Usage: diagnostic-agent.py '<json_log>'"), "none", "1")
       ELSE IF a = "malformed"
       THEN Exit(p, ErrorObject("Invalid JSON"), "none", "1")
       ELSE /\ pc' = [pc EXCEPT ![p] = "diagnose"]
            /\ UNCHANGED <<result, raised, exit_status, prompt, git_run>>

\* the script is run
Start(p) ==
    /\ pc[p] = "idle"
    /\ \E a \in Args : Begin(p, a)
    /\ UNCHANGED <<pure_vars, rejected_oldest, started, clock, ticks, fs, now, recent_calls, response, called,
                   overlapped, admitted>>

\* lines 82, 23-24: diagnose calls check_rate_limit, which reads the clock
EnterRateLimit(p) ==
    /\ pc[p] = "diagnose"
    /\ now' = [now EXCEPT ![p] = clock]
    /\ called' = [called EXCEPT ![p] = Append(@, "check_rate_limit")]
    /\ overlapped' = [q \in Procs |->
                        IF q = p THEN \E r \in Procs \ {p} : InRateLimit(r)
                        ELSE overlapped[q] \/ InRateLimit(q)]
    /\ pc' = [pc EXCEPT ![p] = "exists"]
    /\ UNCHANGED <<pure_vars, rejected_oldest, started, clock, ticks, fs, arg, recent_calls, admitted, outcome_vars>>

\* line 27
Exists(p) ==
    /\ pc[p] = "exists"
    /\ pc' = [pc EXCEPT ![p] = IF fs.exists THEN "read" ELSE "write_first"]
    /\ UNCHANGED <<pure_vars, rejected_oldest, started, clock, ticks, fs, arg, now, recent_calls, called, overlapped,
                   admitted, outcome_vars>>

\* lines 28-29
WriteFirst(p) ==
    /\ pc[p] = "write_first"
    /\ fs' = WriteText(FirstWrite(now[p]))
    /\ admitted' = Append(admitted, now[p])
    /\ called' = [called EXCEPT ![p] = Append(@, "return True")]
    /\ pc' = [pc EXCEPT ![p] = "fields"]
    /\ rejected_oldest' = [rejected_oldest EXCEPT !.latest = NotRejected]
    /\ UNCHANGED <<pure_vars, started, clock, ticks, arg, now, recent_calls, overlapped, outcome_vars>>

\* lines 32-33
ReadCalls(p) ==
    /\ pc[p] = "read"
    /\ recent_calls' = [recent_calls EXCEPT ![p] = RecentCalls(ParseLines(fs.text), now[p])]
    /\ pc' = [pc EXCEPT ![p] = "write"]
    /\ UNCHANGED <<pure_vars, rejected_oldest, started, clock, ticks, fs, arg, now, called, overlapped, admitted, outcome_vars>>

\* the rejection whose return value diagnose ignores: the pipeline goes on
WriteRejectIgnored(p) ==
    /\ pc[p] = "write"
    /\ LimitExceeded(recent_calls[p])
    /\ fs' = WriteText(RejectWrite(recent_calls[p]))
    /\ recent_calls' = [recent_calls EXCEPT ![p] = <<>>]
    /\ called' = [called EXCEPT ![p] = Append(@, "return False")]
    /\ pc' = [pc EXCEPT ![p] = "fields"]
    /\ rejected_oldest' = Rejected(recent_calls[p])
    /\ UNCHANGED <<pure_vars, started, clock, ticks, arg, now, overlapped, admitted, outcome_vars>>

\* the rejection that records the rejected attempt as well
WriteRejectRecorded(p) ==
    /\ pc[p] = "write"
    /\ LimitExceeded(recent_calls[p])
    /\ fs' = WriteText(JoinLines(Append(recent_calls[p], now[p])))
    /\ rejected_oldest' = Rejected(recent_calls[p])
    /\ recent_calls' = [recent_calls EXCEPT ![p] = <<>>]
    /\ called' = [called EXCEPT ![p] = Append(@, "return False")]
    /\ Exit(p, ErrorObject(RATE_LIMIT_MESSAGE), "none", "0")
    /\ UNCHANGED <<pure_vars, started, clock, ticks, arg, now, response, overlapped, admitted>>

\* lines 36-39, 82-83, 153-154: the limit is reached
WriteReject(p) ==
    /\ pc[p] = "write"
    /\ LimitExceeded(recent_calls[p])
    /\ fs' = WriteText(RejectWrite(recent_calls[p]))
    /\ recent_calls' = [recent_calls EXCEPT ![p] = <<>>]
    /\ called' = [called EXCEPT ![p] = Append(@, "return False")]
    /\ Exit(p, ErrorObject(RATE_LIMIT_MESSAGE), "none", "0")
    /\ rejected_oldest' = Rejected(recent_calls[p])
    /\ UNCHANGED <<pure_vars, started, clock, ticks, arg, now, response, overlapped, admitted>>

\* lines 36, 41-44: the call is admitted
WriteAdmit(p) ==
    /\ pc[p] = "write"
    /\ ~LimitExceeded(recent_calls[p])
    /\ fs' = WriteText(AdmitWrite(recent_calls[p], now[p]))
    /\ admitted' = Append(admitted, now[p])
    /\ recent_calls' = [recent_calls EXCEPT ![p] = <<>>]
    /\ called' = [called EXCEPT ![p] = Append(@, "return True")]
    /\ pc' = [pc EXCEPT ![p] = "fields"]
    /\ rejected_oldest' = [rejected_oldest EXCEPT !.latest = NotRejected]
    /\ UNCHANGED <<pure_vars, started, clock, ticks, arg, now, overlapped, outcome_vars>>

\* lines 85-87: error_log.get(...); AttributeError when error_log is no dict
ExtractFields(p) ==
    /\ pc[p] = "fields"
    /\ IF arg[p] = "nondict"
       THEN Exit(p, NoResult, "AttributeError", "1")
       ELSE /\ pc' = [pc EXCEPT ![p] = "source"]
            /\ UNCHANGED <<result, raised, exit_status, prompt, git_run>>
    /\ UNCHANGED <<pure_vars, rejected_oldest, started, clock, ticks, fs, arg, now, recent_calls, response, called,
                   overlapped, admitted>>

\* line 89
CollectSource(p) ==
    /\ pc[p] = "source"
    /\ called' = [called EXCEPT ![p] = Append(@, "collect_source_context")]
    /\ \E f \in SourceFiles :
        LET r == collect_source_context(f)
        IN  IF r.raised # "none"
            THEN Exit(p, NoResult, r.raised, "1")
            ELSE /\ prompt' = [prompt EXCEPT ![p].source = r.value]
                 /\ pc' = [pc EXCEPT ![p] = "git"]
                 /\ UNCHANGED <<result, raised, exit_status, git_run>>
    /\ UNCHANGED <<pure_vars, rejected_oldest, started, clock, ticks, fs, arg, now, recent_calls, response, overlapped,
                   admitted>>

\* lines 90-126
CollectGit(p) ==
    /\ pc[p] = "git"
    /\ called' = [called EXCEPT ![p] = Append(@, "collect_git_context")]
    /\ \E run \in GitRuns :
        /\ git_run' = [git_run EXCEPT ![p] = run]
        /\ prompt' = [prompt EXCEPT ![p].git_log = collect_git_context(run)]
    /\ pc' = [pc EXCEPT ![p] = "llm"]
    /\ UNCHANGED <<pure_vars, rejected_oldest, started, clock, ticks, fs, arg, now, recent_calls, response, result, raised,
                   exit_status, overlapped, admitted>>

\* the call that gives the admission back when the provider fails: it takes
\* the last timestamp out of the storage again
CallLLMRefundsFailure(p) ==
    /\ pc[p] = "llm"
    /\ called' = [called EXCEPT ![p] = Append(@, "client.messages.create")]
    /\ \E outcome \in LLMOutcomes :
        /\ response' = [response EXCEPT ![p] = outcome]
        /\ fs' = IF outcome.raised # "none"
                 THEN WriteText(SubSeq(fs.text, 1, Len(fs.text) - 1))
                 ELSE fs
        /\ LET r == CallAndParse(outcome)
           IN  IF r.raised # "none"
               THEN Exit(p, NoResult, r.raised, "1")
               ELSE Exit(p, r.value, "none", "0")
    /\ UNCHANGED <<pure_vars, rejected_oldest, started, clock, ticks, arg, now, recent_calls,
                   overlapped, admitted>>

\* lines 128-144, 153-154
CallLLM(p) ==
    /\ pc[p] = "llm"
    /\ called' = [called EXCEPT ![p] = Append(@, "client.messages.create")]
    /\ \E outcome \in LLMOutcomes :
        /\ response' = [response EXCEPT ![p] = outcome]
        /\ LET r == CallAndParse(outcome)
           IN  IF r.raised # "none"
               THEN Exit(p, NoResult, r.raised, "1")
               ELSE Exit(p, r.value, "none", "0")
    /\ UNCHANGED <<pure_vars, rejected_oldest, started, clock, ticks, fs, arg, now, recent_calls, overlapped, admitted>>

\* the process is gone; the next invocation starts from scratch
Return(p) ==
    /\ pc[p] = "exit"
    /\ pc' = [pc EXCEPT ![p] = "idle"]
    /\ arg' = [arg EXCEPT ![p] = "none"]
    /\ now' = [now EXCEPT ![p] = 0]
    /\ response' = [response EXCEPT ![p] = NoResponse]
    /\ result' = [result EXCEPT ![p] = NoResult]
    /\ raised' = [raised EXCEPT ![p] = "none"]
    /\ exit_status' = [exit_status EXCEPT ![p] = "running"]
    /\ called' = [called EXCEPT ![p] = <<>>]
    /\ overlapped' = [overlapped EXCEPT ![p] = FALSE]
    /\ UNCHANGED <<pure_vars, rejected_oldest, started, clock, ticks, fs, recent_calls, prompt, git_run, admitted>>

\* time passes
Tick ==
    /\ ticks < MaxTicks
    /\ \E d \in Deltas : clock' = clock + d
    /\ ticks' = ticks + 1
    /\ UNCHANGED <<fs, pc, arg, now, recent_calls, called, overlapped, admitted,
                   started, outcome_vars, pure_vars, rejected_oldest>>

\* serialized invocation: a process starts only when no other is under way
SerialStart(p) ==
    /\ \A q \in Procs : pc[q] = "idle"
    /\ Len(admitted) < MaxAdmitted
    /\ Start(p)

Next ==
    \/ \E p \in Procs : SerialStart(p)
    \/ \E p \in Procs : EnterRateLimit(p)
    \/ \E p \in Procs : Exists(p)
    \/ \E p \in Procs : WriteFirst(p)
    \/ \E p \in Procs : ReadCalls(p)
    \/ \E p \in Procs : WriteReject(p)
    \/ \E p \in Procs : WriteAdmit(p)
    \/ \E p \in Procs : ExtractFields(p)
    \/ \E p \in Procs : CollectSource(p)
    \/ \E p \in Procs : CollectGit(p)
    \/ \E p \in Procs : CallLLM(p)
    \/ \E p \in Procs : Return(p)
    \/ Tick

Spec == Init /\ [][Next]_vars

(* ---------------- check_rate_limit run without interruption ------------ *)

\* lines 21-44 on the storage file at the time t: what is returned, and the
\* storage left behind
check_rate_limit(file, t) ==
    IF ~file.exists
    THEN [ret |-> TRUE, fs |-> WriteText(FirstWrite(t))]
    ELSE LET recent == RecentCalls(ParseLines(file.text), t)
         IN  IF LimitExceeded(recent)
             THEN [ret |-> FALSE, fs |-> WriteText(RejectWrite(recent))]
             ELSE [ret |-> TRUE, fs |-> WriteText(AdmitWrite(recent, t))]

(* ----------------------- concurrent invocations ------------------------ *)

\* the timestamps Spec has admitted and stored after one call at second 0 and
\* MAX_CALLS_PER_HOUR - 2 calls at second 1: one short of the limit
NearLimit == <<0>> \o [i \in 1..(MAX_CALLS_PER_HOUR - 2) |-> 1]

\* concurrent invocations start at second 1 from missing storage, or from the
\* quiescent state Spec reaches with NearLimit stored
ConcInit ==
    /\ clock = 1
    /\ ticks = 1
    /\ \/ /\ fs = NoFile
          /\ admitted = <<>>
       \/ /\ fs = WriteText(JoinLines(NearLimit))
          /\ admitted = NearLimit
    /\ started = 0
    /\ Quiescent
    /\ fn_in = NoInput
    /\ fn_out = NoOutput

\* p is past check_rate_limit and has not finished: from here to its exit it
\* reads and writes nothing another process can see
PastRateLimit(p) == pc[p] \in {"fields", "source", "git", "llm"}

\* the steps of a process past check_rate_limit commute with every step of the
\* others, so they are scheduled first: another process moves only when no
\* process is past check_rate_limit
MayMove(p) == \A q \in Procs \ {p} : ~PastRateLimit(q)

\* independent invocations: a process starts with no regard to the others
ConcStart(p) ==
    /\ started < MaxConcStarts
    /\ MayMove(p)
    /\ pc[p] = "idle"
    /\ started' = started + 1
    /\ \E a \in Args : Begin(p, a)
    /\ UNCHANGED <<clock, ticks, fs, now, recent_calls, response, called, overlapped,
                   admitted, pure_vars, rejected_oldest>>

ConcTick ==
    /\ \A p \in Procs : ~PastRateLimit(p)
    /\ Tick

ConcNext ==
    \/ \E p \in Procs : ConcStart(p)
    \/ \E p \in Procs : MayMove(p) /\ EnterRateLimit(p)
    \/ \E p \in Procs : MayMove(p) /\ Exists(p)
    \/ \E p \in Procs : MayMove(p) /\ WriteFirst(p)
    \/ \E p \in Procs : MayMove(p) /\ ReadCalls(p)
    \/ \E p \in Procs : MayMove(p) /\ WriteReject(p)
    \/ \E p \in Procs : MayMove(p) /\ WriteAdmit(p)
    \/ \E p \in Procs : MayMove(p) /\ ExtractFields(p)
    \/ \E p \in Procs : MayMove(p) /\ CollectSource(p)
    \/ \E p \in Procs : MayMove(p) /\ CollectGit(p)
    \/ \E p \in Procs : MayMove(p) /\ CallLLM(p)
    \/ \E p \in Procs : MayMove(p) /\ Return(p)
    \/ ConcTick

ConcSpec == ConcInit /\ [][ConcNext]_vars

(* ------------------- functions applied on their own -------------------- *)

\* the longest short text
MaxShort == 4

\* by how much the longest file exceeds SOURCE_LIMIT
MaxOver == 2

\* all sequences over S of length at most n
RECURSIVE SeqsUpTo(_, _)
SeqsUpTo(S, n) ==
    IF n = 0 THEN {<<>>}
    ELSE LET shorter == SeqsUpTo(S, n - 1)
         IN  shorter \cup {Append(s, c) : s \in shorter, c \in S}

\* a text of n characters, all "a" but a "b" at position mark (none for 0)
LongText(n, mark) == [i \in 1..n |-> IF i = mark THEN "b" ELSE "a"]

\* the lengths around SOURCE_LIMIT
LongLengths == (SOURCE_LIMIT - 1)..(SOURCE_LIMIT + MaxOver)

\* file contents: every short text, and long texts that differ at their
\* start, around SOURCE_LIMIT and at their end
SourceContents ==
    SeqsUpTo({"a", "b"}, MaxShort)
        \cup {LongText(n, mark) : n \in LongLengths,
                                  mark \in {0, 1, SOURCE_LIMIT, SOURCE_LIMIT + 1,
                                            SOURCE_LIMIT + MaxOver}}

\* the mapped path: no file, a text file, or a file whose read raises
SourceInputs ==
    {[exists |-> FALSE, readable |-> FALSE, content |-> <<>>],
     [exists |-> TRUE, readable |-> FALSE, content |-> <<>>]}
        \cup {[exists |-> TRUE, readable |-> TRUE, content |-> c] : c \in SourceContents}

(* scripts/config-loader.py: a YAML value is None, a boolean or a mapping *)

None_ == [kind |-> "none"]

Bool(b) == [kind |-> "bool", val |-> b]

Dict(items) == [kind |-> "dict", items |-> items]

EmptyDict == Dict(<<>>)

\* bool(v)
Truthy(v) ==
    CASE v.kind = "none" -> FALSE
      [] v.kind = "bool" -> v.val
      [] v.kind = "dict" -> DOMAIN v.items # {}

\* d.get(key, default) for a mapping d
Get(d, key, default) == IF key \in DOMAIN d.items THEN d.items[key] ELSE default

\* lines 48-81; of the sections only automation and phases are read by is_enabled
get_default_config ==
    Dict([automation |-> Dict([enabled |-> Bool(FALSE)]),
          phases |-> Dict([log_watcher |-> Dict([enabled |-> Bool(FALSE)]),
                           ai_diagnostic |-> Dict([enabled |-> Bool(FALSE)]),
                           issue_creation |-> Dict([enabled |-> Bool(FALSE)]),
                           auto_fix |-> Dict([enabled |-> Bool(FALSE)])])])

\* lines 37-45: automation.config.yaml is missing, or parses to the value doc
load_config(file) ==
    IF ~file.exists THEN get_default_config
    ELSE IF Truthy(file.doc) THEN file.doc ELSE EmptyDict

\* lines 84-95, for the key path split at the dots
RECURSIVE get_nested_value(_, _)
get_nested_value(value, keys) ==
    IF keys = <<>> THEN value
    ELSE IF value.kind = "dict" /\ Head(keys) \in DOMAIN value.items
         THEN get_nested_value(value.items[Head(keys)], Tail(keys))
         ELSE None_

\* no phase argument, or the phase name given
NoPhase == [given |-> FALSE, name |-> ""]

Phase(name) == [given |-> TRUE, name |-> name]

\* lines 98-110: x.get(...) on a value that is no mapping raises AttributeError
is_enabled(file, phase) ==
    LET config == load_config(file)
        automation == Get(config, "automation", EmptyDict)
    IN  IF automation.kind # "dict" THEN Raised("AttributeError")
        ELSE IF ~Truthy(Get(automation, "enabled", Bool(FALSE))) THEN Returned(Bool(FALSE))
        ELSE IF phase.given /\ phase.name # ""
        THEN LET phases == Get(config, "phases", EmptyDict)
             IN  IF phases.kind # "dict" THEN Raised("AttributeError")
                 ELSE LET section == Get(phases, phase.name, EmptyDict)
                      IN  IF section.kind # "dict" THEN Raised("AttributeError")
                          ELSE Returned(Get(section, "enabled", Bool(FALSE)))
        ELSE Returned(Bool(TRUE))

\* the phases a document names
PhaseNames == {"ai_diagnostic", "auto_fix"}

\* a section that holds at most the key enabled, or nothing at all (null)
FlagSections ==
    {None_, EmptyDict, Dict([enabled |-> Bool(TRUE)]), Dict([enabled |-> Bool(FALSE)])}

\* the values of the key phases
PhasesSections ==
    {None_} \cup {Dict(f) : f \in UNION {[S -> FlagSections] : S \in SUBSET PhaseNames}}

\* the documents: each of the keys automation and phases present or not
ConfigDocs ==
    {None_}
        \cup {Dict([k \in S |-> IF k = "automation" THEN a ELSE ph]) :
                 S \in SUBSET {"automation", "phases"},
                 a \in FlagSections, ph \in PhasesSections}

ConfigFiles ==
    {[exists |-> FALSE, doc |-> None_]} \cup {[exists |-> TRUE, doc |-> d] : d \in ConfigDocs}

\* the phase argument of --check: none, empty, named in the documents, or unknown
PhaseArgs == {NoPhase, Phase(""), Phase("ai_diagnostic"), Phase("unknown")}

(* check_rate_limit on a stored sequence and on a permutation of it *)

\* the longest freely ordered part of a stored sequence
MaxStored == 3

\* stored timestamps: at HOUR the first has left the window, at HOUR + 1 the
\* second too
StoredTimes == {0, 1, 2}

CallTimes == {HOUR, HOUR + 1}

\* how many timestamps, all in the window, are stored besides
PadLengths == {0, MAX_CALLS_PER_HOUR - 2, MAX_CALLS_PER_HOUR - 1}

Pad(n) == [i \in 1..n |-> 2]

\* s and r hold the same timestamps, each as often
SameTimestamps(s, r) ==
    /\ Len(s) = Len(r)
    /\ \A t \in StoredTimes :
          Cardinality({i \in DOMAIN s : s[i] = t}) = Cardinality({i \in DOMAIN r : r[i] = t})

\* a stored sequence, and the same timestamps in another order: the free part
\* permuted at will, the rest moved from behind it to before it
StoredPairs ==
    LET free == SeqsUpTo(StoredTimes, MaxStored)
    IN  {[stored |-> sr[1] \o Pad(n), permuted |-> Pad(n) \o sr[2]] :
            n \in PadLengths,
            sr \in {q \in free \X free : SameTimestamps(q[1], q[2])}}

(* the handling of a response text *)

\* the longest response text
MaxText == 6

ResponseInputs == SeqsUpTo(Chars, MaxText)

\* the inputs of the functions applied on their own
PureInputs ==
    {[fn |-> "collect_source_context", file |-> f] : f \in SourceInputs}
        \cup {[fn |-> "is_enabled", file |-> f, phase |-> ph] :
                 f \in ConfigFiles, ph \in PhaseArgs}
        \cup {[fn |-> "check_rate_limit", stored |-> sp.stored, permuted |-> sp.permuted,
                now |-> t] : sp \in StoredPairs, t \in CallTimes}
        \cup {[fn |-> "parse_response", text |-> c] : c \in ResponseInputs}

\* no process runs; one function is about to be applied to one input
PureInit ==
    /\ clock = 0
    /\ ticks = 0
    /\ fs = NoFile
    /\ admitted = <<>>
    /\ started = 0
    /\ Quiescent
    /\ fn_in \in PureInputs
    /\ fn_out = NoOutput

\* the frame of a function applied on its own
PureFrame ==
    UNCHANGED <<clock, ticks, fs, pc, arg, now, recent_calls, called, overlapped, admitted,
                started, rejected_oldest, outcome_vars, fn_in>>

\* lines 51-60
ApplyCollectSource ==
    /\ fn_in.fn = "collect_source_context"
    /\ fn_out = NoOutput
    /\ fn_out' = [fn |-> fn_in.fn, ret |-> collect_source_context(fn_in.file)]
    /\ PureFrame

\* config-loader.py lines 149-151
ApplyIsEnabled ==
    /\ fn_in.fn = "is_enabled"
    /\ fn_out = NoOutput
    /\ fn_out' = [fn |-> fn_in.fn, ret |-> is_enabled(fn_in.file, fn_in.phase)]
    /\ PureFrame

\* lines 21-44, on the stored sequence and on the permuted one
ApplyCheckRateLimit ==
    /\ fn_in.fn = "check_rate_limit"
    /\ fn_out = NoOutput
    /\ fn_out' = [fn |-> fn_in.fn,
                  ret |-> check_rate_limit(WriteText(JoinLines(fn_in.stored)), fn_in.now),
                  ret_permuted |->
                      check_rate_limit(WriteText(JoinLines(fn_in.permuted)), fn_in.now)]
    /\ PureFrame

\* lines 136-141, on the response text: the span searched and what diagnose returns
ApplyParseResponse ==
    /\ fn_in.fn = "parse_response"
    /\ fn_out = NoOutput
    /\ fn_out' = [fn |-> fn_in.fn,
                  span |-> BraceSearch(fn_in.text),
                  ret |-> ParseResponse(fn_in.text)]
    /\ PureFrame

PureNext ==
    \/ ApplyCollectSource
    \/ ApplyIsEnabled
    \/ ApplyCheckRateLimit
    \/ ApplyParseResponse

PureSpec == PureInit /\ [][PureNext]_vars

(* ------------------------------- claims -------------------------------- *)

\* how many entries of ts lie in the trailing window (t - 3600, t]
CountWindow(ts, t) ==
    Cardinality({i \in DOMAIN ts : ts[i] > t - HOUR /\ ts[i] <= t})

\* how many entries of ts are t
CountEqual(ts, t) == Cardinality({i \in DOMAIN ts : ts[i] = t})

\* how many entries of ts are later than bound
CountLater(ts, bound) == Cardinality({i \in DOMAIN ts : ts[i] > bound})

\* how many lines of the stored text hold the timestamp t
CountStored(t) == Cardinality({i \in DOMAIN fs.text : fs.text[i] = <<t>>})

\* how many lines of the stored text hold a timestamp later than bound
StoredLater(bound) ==
    Cardinality({i \in DOMAIN fs.text : fs.text[i] # <<>> /\ fs.text[i][1] > bound})

\* the lines of text that hold a timestamp later than t - 3600, in their order
PrunedLines(text, t) ==
    LET InWindow(line) == line # <<>> /\ line[1] > t - HOUR
    IN  SelectSeq(text, InWindow)

Elements(s) == {s[i] : i \in DOMAIN s}

\* the times at which the number of admitted calls in the trailing window can
\* change, and the present
ObservationTimes ==
    {clock} \cup Elements(admitted)
        \cup {t + HOUR - 1 : t \in Elements(admitted)}
        \cup {t + HOUR : t \in Elements(admitted)}

\* C1: under serialized invocation from missing or empty storage and a clock
\* that never goes back, at every time t at most MAX_CALLS_PER_HOUR admitted
\* calls have their timestamp in the trailing window (t - 3600, t].
C1_WindowNeverExceedsLimit ==
    \A t \in ObservationTimes : CountWindow(admitted, t) <= MAX_CALLS_PER_HOUR

\* the window is full, a call was just rejected, and earlier admitted calls
\* have already left the window
C1_Witness ==
    /\ CountWindow(admitted, clock) = MAX_CALLS_PER_HOUR
    /\ Len(admitted) > MAX_CALLS_PER_HOUR
    /\ \E p \in Procs : pc[p] = "exit" /\ result[p] = ErrorObject(RATE_LIMIT_MESSAGE)

\* C2: an invocation in which check_rate_limit returned False has ended at
\* once with the rate-limit error object and has called neither the source
\* collector, the history collector nor the LLM client; and every invocation
\* calls the LLM client at most once and only after check_rate_limit
\* returned True.
C2_RejectReturnsAtOnce ==
    \A p \in Procs :
        /\ "return False" \in Elements(called[p]) =>
              /\ pc[p] = "exit"
              /\ called[p] = <<"check_rate_limit", "return False">>
              /\ result[p] = ErrorObject(RATE_LIMIT_MESSAGE)
              /\ raised[p] = "none"
        /\ Cardinality({i \in DOMAIN called[p] : called[p][i] = "client.messages.create"}) <= 1
        /\ \A i \in DOMAIN called[p] :
              called[p][i] = "client.messages.create" =>
                  \E j \in 1..(i - 1) : called[p][j] = "return True"

\* an invocation was rejected
C2_Witness ==
    \E p \in Procs :
        /\ pc[p] = "exit"
        /\ called[p] = <<"check_rate_limit", "return False">>
        /\ StoredLater(now[p] - HOUR) >= MAX_CALLS_PER_HOUR

\* p leaves check_rate_limit admitted, and no other process was inside
\* check_rate_limit while p was
SerializedAdmit(p) ==
    /\ pc[p] \in {"write", "write_first"}
    /\ pc'[p] = "fields"
    /\ ~overlapped[p]

\* C3 as stated: whatever races went before, a serialized call is admitted
\* only when fewer than MAX_CALLS_PER_HOUR admitted calls lie in its window.
C3_SerializedAdmitBelowAdmittedLimit ==
    [][\A p \in Procs :
          SerializedAdmit(p) => CountLater(admitted, now[p] - HOUR) < MAX_CALLS_PER_HOUR]_vars

\* C3 as amended: whatever races went before, a serialized call is admitted
\* only when fewer than MAX_CALLS_PER_HOUR timestamps of its window are in
\* the storage; it is rejected as long as the storage holds that many.
C3_SerializedAdmitBelowStoredLimit ==
    [][\A p \in Procs :
          /\ SerializedAdmit(p) => StoredLater(now[p] - HOUR) < MAX_CALLS_PER_HOUR
          /\ (pc[p] = "write" /\ pc'[p] # "write" /\ ~overlapped[p]
                  /\ StoredLater(now[p] - HOUR) >= MAX_CALLS_PER_HOUR)
              => result'[p] = ErrorObject(RATE_LIMIT_MESSAGE)]_vars

\* two invocations overlapped inside check_rate_limit, both were admitted, and
\* the window holds more admitted calls than the limit while the storage holds
\* exactly the limit
C3_Witness ==
    \E p, q \in Procs :
        /\ p # q
        /\ overlapped[p] /\ overlapped[q]
        /\ "return True" \in Elements(called[p])
        /\ "return True" \in Elements(called[q])
        /\ CountWindow(admitted, clock) > MAX_CALLS_PER_HOUR
        /\ StoredLater(clock - HOUR) = MAX_CALLS_PER_HOUR

\* C4: the window check_rate_limit computes at now holds each stored
\* timestamp t > now - 3600 as often as it is stored, and no timestamp
\* t <= now - 3600.
C4_WindowIsStrictlyAfterHourAgo ==
    \A p \in Procs :
        pc[p] = "write" =>
            \A t \in Elements(recent_calls[p]) \cup {l[1] : l \in Elements(fs.text) \ {<<>>}} :
                CountEqual(recent_calls[p], t)
                    = IF t > now[p] - HOUR THEN CountStored(t) ELSE 0

\* a call reads storage that holds a timestamp exactly 3600 s old and one a
\* second younger
C4_Witness ==
    \E p \in Procs :
        /\ pc[p] = "write"
        /\ CountStored(now[p] - HOUR) > 0
        /\ CountStored(now[p] - HOUR + 1) > 0
        /\ Len(recent_calls[p]) = CountStored(now[p] - HOUR + 1)

\* C5: a call that finds MAX_CALLS_PER_HOUR or more stored timestamps in its
\* window is rejected and leaves in the storage exactly the stored lines of
\* the window, in their order: no line is added for the rejected call.
C5_RejectStoresPrunedWindow ==
    [][\A p \in Procs :
          (/\ pc[p] = "write"
           /\ pc'[p] # "write"
           /\ StoredLater(now[p] - HOUR) >= MAX_CALLS_PER_HOUR)
          => /\ result'[p] = ErrorObject(RATE_LIMIT_MESSAGE)
             /\ "return False" \in Elements(called'[p])
             /\ fs'.exists
             /\ fs'.text = PrunedLines(fs.text, now[p])
             /\ admitted' = admitted]_vars

\* a call was rejected and the storage holds exactly the limit
C5_Witness ==
    \E p \in Procs :
        /\ pc[p] = "exit"
        /\ "return False" \in Elements(called[p])
        /\ Len(fs.text) = MAX_CALLS_PER_HOUR
        /\ StoredLater(now[p] - HOUR) = MAX_CALLS_PER_HOUR

\* C6: an admitted call leaves in the storage the stored lines of its window,
\* in their order, followed by now; a call that finds no storage is admitted
\* and leaves storage that exists and holds the one line now.
C6_AdmitStoresWindowThenNow ==
    [][\A p \in Procs :
          /\ (pc[p] = "write" /\ pc'[p] = "fields")
                => /\ fs'.exists
                   /\ fs'.text = PrunedLines(fs.text, now[p]) \o << <<now[p]>> >>
                   /\ admitted' = Append(admitted, now[p])
          /\ (pc[p] = "exists" /\ pc'[p] # "exists" /\ ~fs.exists)
                => pc'[p] = "write_first"
          /\ (pc[p] = "write_first" /\ pc'[p] # "write_first")
                => /\ pc'[p] = "fields"
                   /\ called'[p] = <<"check_rate_limit", "return True">>
                   /\ fs'.exists
                   /\ fs'.text = << <<now[p]>> >>
                   /\ admitted' = Append(admitted, now[p])]_vars

\* a call was just admitted and its write dropped an expired timestamp
C6_Witness ==
    \E p \in Procs :
        /\ pc[p] = "fields"
        /\ fs.text[Len(fs.text)] = <<now[p]>>
        /\ Len(fs.text) > 1
        /\ Len(fs.text) < Len(admitted)

\* p has ended after the LLM client returned the text of response[p]
GotResponseText(p) ==
    /\ pc[p] = "exit"
    /\ "client.messages.create" \in Elements(called[p])
    /\ response[p].raised = "none"

\* the text holds no brace-delimited span, or the span does not decode
NoDecodableSpan(text) ==
    \/ BraceSearch(text) = NoMatch
    \/ ~JsonLoads(MatchGroup(text, BraceSearch(text))).ok

\* C7 as stated: for a response text without a brace-delimited span, or whose
\* span does not decode as JSON, diagnose returns the parse-failure object:
\* the fixed message and raw, the first at most 200 characters of the text.
C7_UndecodableGivesParseFailure ==
    \A p \in Procs :
        (GotResponseText(p) /\ NoDecodableSpan(response[p].text))
            => result[p] = [error |-> JSON_PARSE_FAILED,
                            raw |-> Prefix(response[p].text, RAW_LIMIT)]

\* C8 as stated: once diagnose has looked the source up, whatever the lookup
\* found, it ends without raising, having called the LLM client, with a
\* result object.
C8_ContextFailureNeverAborts ==
    \A p \in Procs :
        (pc[p] = "exit" /\ "collect_source_context" \in Elements(called[p]))
            => /\ raised[p] = "none"
               /\ "client.messages.create" \in Elements(called[p])
               /\ result[p] # NoResult

\* the external call failed: it timed out, the tool is missing, or the tool
\* ended with an error status
GitFailed(run) ==
    \/ run.outcome \in {"TimeoutExpired", "FileNotFoundError"}
    \/ run.outcome = "completed" /\ run.returncode # 0

\* C9 as stated: for every failure of the external version-control call
\* collect_git_context returns the failure sentinel.
C9_GitFailureGivesFailureSentinel ==
    \A p \in Procs :
        (pc[p] = "llm" /\ GitFailed(git_run[p])) => prompt[p].git_log = GIT_FAILED

\* C10: when the LLM client call raised, diagnose returned the object
\* {"error": <the exception as a string>}; no exception left diagnose and the
\* process ended with status 0.
C10_ProviderErrorBecomesResult ==
    \A p \in Procs :
        (pc[p] = "exit" /\ response[p].raised # "none")
            => /\ result[p] = [error |-> response[p].raised]
               /\ raised[p] = "none"
               /\ exit_status[p] = "0"

\* the LLM client call raised
C10_Witness ==
    \E p \in Procs :
        /\ pc[p] = "exit"
        /\ response[p].raised \in LLMExceptions
        /\ called[p][Len(called[p])] = "client.messages.create"

\* C11: a process whose argument is no JSON has ended with the invalid-input
\* error object and a non-zero status without calling check_rate_limit: the
\* step that refuses the argument leaves the storage and the admitted calls
\* as they were, and that process never calls the LLM client.
C11_MalformedIsRefusedBeforeRateLimit ==
    [][\A p \in Procs :
          arg'[p] = "malformed" =>
              /\ pc'[p] = "exit"
              /\ result'[p] = ErrorObject("Invalid JSON")
              /\ exit_status'[p] = "1"
              /\ called'[p] = <<>>
              /\ response'[p] = NoResponse
              /\ fs' = fs
              /\ admitted' = admitted]_vars

\* an argument that is no JSON was refused while the storage held timestamps
C11_Witness ==
    \E p \in Procs :
        /\ arg[p] = "malformed"
        /\ pc[p] = "exit"
        /\ fs.exists
        /\ StoredLater(clock - HOUR) > 0

\* C12 as stated: a process whose argument decoded as JSON ends, whatever
\* happened on its way (rate limit exceeded, context unavailable, provider
\* error, parse error), with a result object printed and status 0; no
\* exception leaves it.
C12_DecodedArgumentNeverFails ==
    \A p \in Procs :
        (pc[p] = "exit" /\ arg[p] \in {"nondict", "dict"})
            => /\ raised[p] = "none"
               /\ exit_status[p] = "0"
               /\ result[p] # NoResult

\* C13: collect_source_context returns, for a missing file, the not-found
\* sentinel; for a text file of at most SOURCE_LIMIT characters, its exact
\* contents; for a longer one, exactly its first SOURCE_LIMIT characters with
\* nothing added; never more than SOURCE_LIMIT characters of the file.
C13_SourceContextIsFirst3000 ==
    fn_out.fn = "collect_source_context" =>
        LET f == fn_in.file
            r == fn_out.ret
        IN  /\ ~f.exists => r = [raised |-> "none", value |-> SOURCE_NOT_FOUND]
            /\ (f.exists /\ f.readable) =>
                  /\ r.raised = "none"
                  /\ Len(r.value) <= SOURCE_LIMIT
                  /\ Len(f.content) <= SOURCE_LIMIT => r.value = f.content
                  /\ Len(f.content) > SOURCE_LIMIT => Len(r.value) = SOURCE_LIMIT
                  /\ \A i \in 1..Len(r.value) : r.value[i] = f.content[i]

\* a file longer than SOURCE_LIMIT, whose character just before the cut
\* differs from the others, was collected
C13_Witness ==
    /\ fn_out.fn = "collect_source_context"
    /\ Len(fn_in.file.content) > SOURCE_LIMIT
    /\ fn_in.file.content[SOURCE_LIMIT] = "b"
    /\ Len(fn_out.ret.value) = SOURCE_LIMIT

\* the flag at the key path keys of the configuration in force: "true",
\* "false", or "absent" when the path leads to no boolean
FlagAt(file, keys) ==
    LET v == get_nested_value(load_config(file), keys)
    IN  IF v.kind = "bool" THEN (IF v.val THEN "true" ELSE "false") ELSE "absent"

\* C14 as stated: is_enabled returns false whenever automation.enabled is
\* false or absent; when it is true it returns true with no phase given, and
\* for a given phase that phase's enabled flag, false when the phase or its
\* flag is absent; with no configuration document it returns false for every
\* phase.
C14_IsEnabledGatedByGlobalThenPhase ==
    fn_out.fn = "is_enabled" =>
        LET file == fn_in.file
            phase == fn_in.phase
            global == FlagAt(file, <<"automation", "enabled">>)
            flag == FlagAt(file, <<"phases", phase.name, "enabled">>)
        IN  /\ fn_out.ret.raised = "none"
            /\ global # "true" => fn_out.ret.value = Bool(FALSE)
            /\ (global = "true" /\ ~phase.given) => fn_out.ret.value = Bool(TRUE)
            /\ (global = "true" /\ phase.given) => fn_out.ret.value = Bool(flag = "true")
            /\ ~file.exists => fn_out.ret.value = Bool(FALSE)

\* how many lines of text are the line l
CountLine(text, l) == Cardinality({i \in DOMAIN text : text[i] = l})

\* C15: for stored timestamps in any order and the same now, check_rate_limit
\* takes the same decision and leaves the same multiset of timestamps in the
\* storage.
C15_OrderOfStoredTimestampsIsImmaterial ==
    fn_out.fn = "check_rate_limit" =>
        LET a == fn_out.ret
            b == fn_out.ret_permuted
        IN  /\ a.ret = b.ret
            /\ Len(a.fs.text) = Len(b.fs.text)
            /\ \A l \in Elements(a.fs.text) \cup Elements(b.fs.text) :
                  CountLine(a.fs.text, l) = CountLine(b.fs.text, l)

\* a call was rejected on a stored sequence with an expired timestamp right
\* behind a recent one, and on a permutation of it with a recent timestamp
\* right behind that expired one; the expired timestamp was pruned
C15_Witness ==
    /\ fn_out.fn = "check_rate_limit"
    /\ ~fn_out.ret.ret
    /\ \E i \in DOMAIN fn_in.stored :
          /\ i > 1
          /\ fn_in.stored[i] <= fn_in.now - HOUR
          /\ fn_in.stored[i - 1] > fn_in.now - HOUR
    /\ \E i \in DOMAIN fn_in.permuted :
          /\ i > 1
          /\ fn_in.permuted[i] > fn_in.now - HOUR
          /\ fn_in.permuted[i - 1] <= fn_in.now - HOUR
    /\ Len(fn_out.ret.fs.text) < Len(fn_in.stored)

\* no character of text before position i is "{" and none behind position j
\* is "}"
OutsideIgnorable(text, i, j) ==
    /\ \A n \in 1..(i - 1) : text[n] # "{"
    /\ \A n \in (j + 1)..Len(text) : text[n] # "}"

\* C16: the span searched in a response text runs from the first "{" to the
\* last "}" of the text, and there is none when no "}" follows the first "{";
\* a text made of one JSON object, of anything without "{" before it and of
\* anything without "}" behind it is decoded to that object, which diagnose
\* returns as it is.
C16_SpanIsFirstBraceToLastBrace ==
    fn_out.fn = "parse_response" =>
        LET text == fn_in.text
            span == fn_out.span
            outer == {ij \in (1..Len(text)) \X (1..Len(text)) :
                         /\ ij[1] < ij[2]
                         /\ text[ij[1]] = "{"
                         /\ text[ij[2]] = "}"
                         /\ OutsideIgnorable(text, ij[1], ij[2])}
        IN  /\ outer = {} => span = <<0, 0>>
            /\ \A ij \in outer :
                  /\ span = ij
                  /\ JsonLoads(SubSeq(text, ij[1], ij[2])).ok =>
                        fn_out.ret = [decoded |-> JsonLoads(SubSeq(text, ij[1], ij[2])).val]

\* an object with an object inside, behind prose, was decoded and returned
C16_Witness ==
    /\ fn_out.fn = "parse_response"
    /\ Len(fn_in.text) > 1
    /\ fn_in.text[1] = "x"
    /\ fn_out.span = <<2, Len(fn_in.text)>>
    /\ fn_out.ret = [decoded |-> <<"object", <<"object">>>>]

\* check_rate_limit has returned True to p
Admitted(p) == "return True" \in Elements(called[p])

\* C17: the step in which check_rate_limit admits a call adds exactly one
\* timestamp, that of the call, to the storage; from then on to the end of the
\* invocation, whatever its outcome, the timestamp is the last of the storage
\* and no step of the invocation changes the storage.
C17_AdmissionStaysRecorded ==
    [][\A p \in Procs :
          "return True" \in Elements(called'[p]) =>
              /\ fs'.exists
              /\ fs'.text # <<>>
              /\ fs'.text[Len(fs'.text)] = <<now'[p]>>
              /\ ~Admitted(p) =>
                    Cardinality({i \in DOMAIN fs'.text : fs'.text[i] = <<now[p]>>})
                        = CountStored(now[p]) + 1
              /\ Admitted(p) => fs' = fs]_vars

\* an admitted call has ended with a provider error and its timestamp is
\* stored behind those of earlier calls
C17_Witness ==
    \E p \in Procs :
        /\ pc[p] = "exit"
        /\ Admitted(p)
        /\ response[p].raised \in LLMExceptions
        /\ Len(fs.text) > 1
        /\ fs.text[Len(fs.text)] = <<now[p]>>

\* p takes its decision in this step: it leaves line 36
Decides(p) == pc[p] = "write" /\ pc'[p] # "write"

\* C18 as stated: once a call has been rejected, every later call made at a
\* time now with now - 3600 at or after the oldest timestamp that was in the
\* window at that rejection is admitted.
C18_AdmittedOnceOldestExpired ==
    [][\A p \in Procs :
          (/\ Decides(p)
           /\ rejected_oldest.first # NotRejected
           /\ now[p] - HOUR >= rejected_oldest.first)
              => pc'[p] = "fields"]_vars

\* C18 as amended: once a call has been rejected, a later call made at a time
\* now with now - 3600 at or after the oldest timestamp that was in the window
\* at that rejection is admitted when no call has been admitted since that
\* rejection, however many calls have been rejected since.
C18_AdmittedOnceOldestExpiredUnlessRefilled ==
    [][\A p \in Procs :
          (/\ Decides(p)
           /\ rejected_oldest.latest # NotRejected
           /\ now[p] - HOUR >= rejected_oldest.latest)
              => pc'[p] = "fields"]_vars

\* the first call admitted after a rejection: it was made when the oldest
\* timestamp of the rejecting window had just left the window
C18_Witness ==
    \E p \in Procs :
        /\ Admitted(p)
        /\ Len(admitted) = MAX_CALLS_PER_HOUR + 1
        /\ rejected_oldest.first # NotRejected
        /\ rejected_oldest.latest = NotRejected
        /\ now[p] - HOUR = rejected_oldest.first

\* C19: with invocations that interleave, the storage and the admitted calls
\* can differ in one direction only: every stored timestamp is that of an
\* admitted call, each at most as often as calls were admitted at that second;
\* timestamps of admitted calls can be missing from the storage.
C19_StorageHoldsOnlyAdmittedTimestamps ==
    /\ \A i \in DOMAIN fs.text : fs.text[i] # <<>> => fs.text[i][1] \in Elements(admitted)
    /\ \A t \in Elements(admitted) : CountStored(t) <= CountEqual(admitted, t)

\* two invocations found no storage file while both were inside
\* check_rate_limit; both were admitted, and the storage holds the timestamp
\* of one of them only
C19_Witness ==
    /\ \A p \in Procs : Admitted(p) /\ overlapped[p]
    /\ Len(admitted) = 2
    /\ CountLater(admitted, clock - HOUR) = 2
    /\ Len(fs.text) = 1
    /\ StoredLater(clock - HOUR) = 1

====
